---- MODULE Spec2Model ----
(***************************************************************************)
(* A model of the log retrieval engine of ekslogs (pkg/aws/client.go):     *)
(* EKSLogsClient.GetLogs, which fans out one worker goroutine per log      *)
(* group and pages through FilterLogEvents, and EKSLogsClient.TailLogs,    *)
(* which calls GetLogs on every tick of a ticker and filters the entries   *)
(* through a seen-entry map and a timestamp watermark.                     *)
(*                                                                         *)
(* The CloudWatch Logs service is the environment: the log groups, their   *)
(* streams and their pages of events are chosen in Init, every call may    *)
(* fail, and every call made with a cancelled context fails.               *)
(***************************************************************************)
EXTENDS Integers, Sequences, FiniteSets, TLC

\* ---------------------------------------------------------------- bounds
\* Most log groups DescribeLogGroups returns.
MaxGroups == 2
\* Most pages one log group holds in one-shot retrieval.
MaxPages == 2
\* Most events on one page in one-shot retrieval.
MaxPageLen == 2
\* Largest limit a one-shot GetLogs call is given (0 is "unlimited").
MaxLimit == 2
\* Most ticks of a tail session, and of a tail session during an outage of
\* one log group.
MaxTicks == 3
MaxOutageTicks == 6
\* Longest filter term (in characters) given to the filter builder of the
\* command, and most terms in a list of filter terms.
MaxTermLen == 3
MaxTerms == 2
\* The per-tick limit TailLogs passes to GetLogs, 100 in client.go:425,
\* and the size above which it clears seenEntries, 1000 in client.go:437,
\* both scaled down.
TailLimit == 2
SeenThreshold == 1

\* ------------------------------------------------------- values and types
\* A nil *int64 Timestamp, a nil *string, a nil NextToken, a nil *time.Time.
NoTimestamp == -1
NoString == "<nil>"
NoName == <<"<nil>">>
NoToken == 0
NoTime == -1

\* input.Limit of every FilterLogEvents call (client.go:217).
pageSize == 1000

\* The default of the flag --limit (cmd/root.go:602).
defaultLimit == 1000

\* Time is counted in ticker intervals; TailLogs starts one unit ("one
\* minute", client.go:382) before the time of the call.
Minute == 1

GroupIds == 1 .. MaxGroups

\* A stream name is the sequence of its dash-terminated parts, so that
\* strings.HasPrefix is the prefix relation on sequences.  The first log
\* group has a kube-apiserver stream and a kube-apiserver-audit stream,
\* every other log group has a kube-apiserver-audit stream only.
ApiStream(lg) == << "kube-apiserver-", ToString(lg) >>
AuditStream(lg) == << "kube-apiserver-", "audit-", ToString(lg) >>
Streams(lg) == IF lg = 1 THEN << ApiStream(lg), AuditStream(lg) >> ELSE << AuditStream(lg) >>

HasPrefix(s, prefix) ==
    /\ Len(prefix) <= Len(s)
    /\ SubSeq(s, 1, Len(prefix)) = prefix

\* log.go:79-105: the short name of a log type, or the name as it is.
NormalizeLogType(logType) ==
    CASE logType \in {"api", "audit", "authenticator", "kcm", "ccm", "scheduler"} -> logType
      [] logType = "auth" -> "authenticator"
      [] logType = "sched" -> "scheduler"
      [] logType \in {"kubeControllerManager", "kube-controller-manager", "controller"} -> "kcm"
      [] logType \in {"cloudControllerManager", "cloud-controller-manager", "cloud"} -> "ccm"
      [] OTHER -> logType

\* log.go:179-195: the log type a stream name stands for, "" if none.
ExtractLogTypeFromStreamName(streamName) ==
    IF HasPrefix(streamName, << "kube-apiserver-", "audit-" >>) THEN "audit"
    ELSE IF HasPrefix(streamName, << "kube-apiserver-" >>) THEN "api"
    ELSE IF HasPrefix(streamName, << "authenticator-" >>) THEN "authenticator"
    ELSE IF HasPrefix(streamName, << "kube-controller-manager-" >>) THEN "kcm"
    ELSE IF HasPrefix(streamName, << "cloud-controller-manager-" >>) THEN "ccm"
    ELSE IF HasPrefix(streamName, << "kube-scheduler-" >>) THEN "scheduler"
    ELSE ""

\* The log types a caller asks for: none, or one by its name or its alias.
TypedRequests == { << "api" >>, << "audit" >>, << "sched" >> }

\* The events a log group holds: a well-formed one and a malformed one (a
\* nil field, client.go:247), both in the first stream of the group, and a
\* well-formed one in a stream of choice.
StreamEvent(stream, t) == [Timestamp |-> t, LogStreamName |-> stream, Message |-> "m"]
WellFormedEvent(lg, t) == StreamEvent(Streams(lg)[1], t)
MalformedEvent(lg, t) == [Timestamp |-> t, LogStreamName |-> Streams(lg)[1], Message |-> NoString]

\* All sequences over S of length lo..hi.
SeqsOf(S, lo, hi) == UNION { [1 .. n -> S] : n \in lo .. hi }

\* What one log group can hold: 1..MaxPages pages of 0..MaxPageLen events.
\* A single log group holds any mix of well-formed and malformed events;
\* when several log groups run side by side their events are well-formed.
GroupContents(events) == SeqsOf(SeqsOf(events, 0, MaxPageLen), 1, MaxPages)
ProviderContents(n, lg) ==
    IF n <= 1 THEN GroupContents({ WellFormedEvent(lg, 1), MalformedEvent(lg, 1) })
    ELSE GroupContents({ WellFormedEvent(lg, 1) })

\* What a log group holds when log types are requested: one page with one
\* event of each of its streams.
TypedContents(lg) == << [i \in 1 .. Len(Streams(lg)) |-> StreamEvent(Streams(lg)[i], 1)] >>

\* An error value: what it says, the log groups and the log types it names.
Error(kind, groups, types) == [kind |-> kind, groups |-> groups, types |-> types]
NilError == Error("nil", {}, {})

VARIABLES
    call,           \* the entry point that was called: "GetLogs" or "TailLogs",
                    \* or "filter" when only the filter builder runs
    logTypes,       \* parameter: the requested log types
    filterPattern,  \* flag -F of the command: the include term, "" if not given
    ignoreFilterPattern, \* flag -I of the command: the exclude term
    includePatterns, \* the list of include terms given to the list combiner
    ignorePatterns, \* the list of exclude terms given to the list combiner
    fpc,            \* position of the command: "build", "limit", "done", and of
                    \* the list combiner: "combine", "done"
    limitFlag,      \* flag --limit of the command (its variable limit)
    limitSpecified, \* whether the user gave --limit
    fp,             \* the *string the command passes on as filterPattern
    result,         \* the string the list combiner made
    ctxErr,         \* ctx.Err(): "nil" or "Canceled"
    clock,          \* time.Now()
    provGroups,     \* provider: the log groups DescribeLogGroups returns
    provStreams,    \* provider: the stream names of each log group
    provPages,      \* provider: the pages of events of each log group
    provFaults,     \* provider: which calls can fail
    limit,          \* GetLogs parameter
    gpc,            \* position of GetLogs: "idle", "call", "wait", "returned"
    getErr,         \* the error GetLogs returned
    logGroups,      \* GetLogs local: the log groups workers were started for
    errChan,        \* GetLogs local: the buffered error channel
    describeCalls,  \* number of DescribeLogStreams calls of this GetLogs call
    availableLogTypes, \* GetLogs local: the log types found in the streams
    wpc,            \* per worker: "idle", "streams", "query", "events", and
                    \* after its return "done" or, if it sent an error, "failed"
    input,          \* per worker: the FilterLogEventsInput
    nextToken,      \* per worker
    totalEvents,    \* per worker
    pageCount,      \* per worker
    resp,           \* per worker: the FilterLogEventsOutput being processed
    evIdx,          \* per worker: position of the range loop over resp.Events
    sink,           \* per worker: the entries it passed to printFunc, in order
    tpc,            \* position of TailLogs: "idle", "call", "select", "getlogs", "returned"
    tailErr,        \* the error TailLogs returned
    now,            \* TailLogs local: the time of the current tick
    lastTimestamp,  \* TailLogs local: the watermark
    seenEntries,    \* TailLogs local: the keys of the entries printed
    printed,        \* the entries TailLogs passed to log.PrintLog, in order
    lastReport,     \* the error of this tick that TailLogs printed, if any
    observed        \* the keys of the entries earlier ticks passed to the callback

filterVars == << filterPattern, ignoreFilterPattern, includePatterns, ignorePatterns,
                fpc, fp, result, limitFlag, limitSpecified >>
reqVars == << call, logTypes, filterVars >>
provVars == << provGroups, provStreams, provPages, provFaults >>
getVars == << gpc, getErr, logGroups, errChan, describeCalls, availableLogTypes >>
workerVars == << wpc, input, nextToken, totalEvents, pageCount, resp, evIdx, sink >>
tailVars == << tpc, tailErr, now, lastTimestamp, seenEntries, printed, lastReport,
              observed >>

vars == << reqVars, ctxErr, clock, provVars, limit, getVars, workerVars, tailVars >>

\* ------------------------------------------------------------ the provider
\* What a call to the provider can do: fail (TRUE) or succeed (FALSE).  A
\* call made with a cancelled context fails.  Otherwise any call can fail
\* (provFaults.any), or exactly the calls on the log groups that are out of
\* service do (provFaults.groups).  lg is 0 for DescribeLogGroups.
AnyFault == [any |-> TRUE, groups |-> {}]
CallOutcomes(lg) ==
    IF ctxErr # "nil" \/ lg \in provFaults.groups THEN {TRUE}
    ELSE IF provFaults.any THEN BOOLEAN
    ELSE {FALSE}

\* The number of ticks after which the model stops the ticker.
TickBound == IF provFaults.any THEN MaxTicks ELSE MaxOutageTicks

\* Does the event match the stream names and the time range of the request?
\* Both ends of the range are inclusive.
InWindow(ev, in) ==
    /\ in.StartTime = NoTime \/ ev.Timestamp = NoTimestamp \/ ev.Timestamp >= in.StartTime
    /\ in.EndTime = NoTime \/ ev.Timestamp = NoTimestamp \/ ev.Timestamp <= in.EndTime
    /\ \/ Len(in.LogStreamNames) = 0
       \/ \E i \in 1 .. Len(in.LogStreamNames) : in.LogStreamNames[i] = ev.LogStreamName

RECURSIVE Matching(_, _, _, _)
Matching(page, p, i, in) ==
    IF i > Len(page) THEN << >>
    ELSE IF InWindow(page[i], in)
         THEN << [ev |-> page[i], id |-> << p, i >>] >> \o Matching(page, p, i + 1, in)
         ELSE Matching(page, p, i + 1, in)

\* One page of the paginated event query: the events of page p that match
\* the request, each with its position in the group as identity, and the
\* token of the next page if there is one.
FilterLogEvents(lg, in) ==
    LET p == IF in.NextToken = NoToken THEN 1 ELSE in.NextToken
    IN  [ Events |-> Matching(provPages[lg][p], p, 1, in),
          NextToken |-> IF p < Len(provPages[lg]) THEN p + 1 ELSE NoToken ]

\* A log group receives a new event, stamped with the time of the next
\* tick.  A worker reads a log group once per tick, so an event that arrives
\* during a tick is one that arrived before it or after it.
Emit(lg) ==
    /\ call = "TailLogs"
    /\ tpc = "select"
    /\ clock < TickBound + Minute
    /\ lg \in { provGroups[i] : i \in 1 .. Len(provGroups) } \ provFaults.groups
    /\ \A i \in 1 .. Len(provPages[lg][1]) : provPages[lg][1][i].Timestamp # clock + 1
    /\ provPages' = [provPages EXCEPT ![lg][1] = Append(@, WellFormedEvent(lg, clock + 1))]
    /\ UNCHANGED << reqVars, ctxErr, clock, provGroups, provStreams, provFaults, limit,
                    getVars, workerVars, tailVars >>

\* The context is cancelled from outside.
Cancel ==
    /\ ctxErr = "nil"
    /\ IF call = "GetLogs" THEN gpc # "returned" ELSE tpc # "returned"
    /\ ctxErr' = "Canceled"
    /\ UNCHANGED << reqVars, clock, provVars, limit, getVars, workerVars, tailVars >>

\* --------------------------------------------------------------- GetLogs
\* client.go:247: event.Timestamp != nil && event.LogStreamName != nil &&
\* event.Message != nil
WellFormedAlways(event) == TRUE

WellFormed(event) ==
    /\ event.Timestamp # NoTimestamp
    /\ event.LogStreamName # NoName
    /\ event.Message # NoString

LogEntry(lg, e) ==
    [ Timestamp |-> e.ev.Timestamp, Message |-> e.ev.Message, LogGroup |-> lg,
      LogStream |-> e.ev.LogStreamName, id |-> e.id ]

NoResp == [Events |-> << >>, NextToken |-> NoToken]
NoInput == [LogStreamNames |-> << >>, StartTime |-> NoTime, EndTime |-> NoTime,
            FilterPattern |-> << "<nil>" >>, NextToken |-> NoToken, Limit |-> 0]

SeqToSet(s) == { s[i] : i \in 1 .. Len(s) }

\* client.go:108 and client.go:374: len(logGroups) == 0
noLogGroupsIgnored(groups) == FALSE

noLogGroups(groups) == Len(groups) = 0

\* The startTime and endTime arguments of GetLogs.  TailLogs passes
\* &lastTimestamp and &now, so a worker reads the watermark as it is when
\* the worker builds its query.
startTime == IF call = "TailLogs" THEN lastTimestamp ELSE NoTime
endTime == IF call = "TailLogs" THEN now ELSE NoTime

\* client.go:116-119: the requested log types, normalized.
normalizedLogTypes == { NormalizeLogType(logTypes[i]) : i \in 1 .. Len(logTypes) }

\* client.go:300-328: the log types found in the streams of the log groups;
\* a log group whose DescribeLogStreams call failed is skipped.
getAvailableLogTypes(groups, failed) ==
    UNION { { ExtractLogTypeFromStreamName(provStreams[g][i]) :
                i \in 1 .. Len(provStreams[g]) } : g \in groups \ failed } \ { "" }

\* client.go:126-131 and client.go:163-168: the requested types that are
\* available.
validLogTypesAll(available) == normalizedLogTypes

validLogTypes(available) == normalizedLogTypes \cap available

\* client.go:335-357: the streams of the log group whose type is requested.
getLogStreamsForTypes(lg, types) ==
    SelectSeq(provStreams[lg], LAMBDA s : ExtractLogTypeFromStreamName(s) \in types)

\* GetLogs returns an error before it starts a worker.
GetLogsAbort(err) ==
    /\ gpc' = "returned"
    /\ getErr' = err
    /\ logGroups' = << >>
    /\ wpc' = [g \in GroupIds |-> "idle"]

\* client.go:145-151: one worker per log group.
GetLogsLaunch ==
    /\ gpc' = "wait"
    /\ getErr' = NilError
    /\ logGroups' = provGroups
    /\ wpc' = [g \in GroupIds |-> IF g \in SeqToSet(provGroups) THEN "streams" ELSE "idle"]

\* client.go:103-151: resolve the log groups, check the requested log types
\* against the available ones, and start one worker per log group.
GetLogsEnter ==
    /\ gpc = "call"
    /\ errChan' = << >>
    /\ totalEvents' = [g \in GroupIds |-> 0]
    /\ pageCount' = [g \in GroupIds |-> 0]
    /\ nextToken' = [g \in GroupIds |-> NoToken]
    /\ input' = [g \in GroupIds |-> NoInput]
    /\ resp' = [g \in GroupIds |-> NoResp]
    /\ evIdx' = [g \in GroupIds |-> 1]
    /\ sink' = [g \in GroupIds |-> << >>]
    /\ \E fails \in CallOutcomes(0) :
         IF fails
         THEN /\ GetLogsAbort(Error("failed to get log groups", {}, {}))
              /\ describeCalls' = 0
              /\ availableLogTypes' = {}
         ELSE IF noLogGroups(provGroups)
         THEN /\ GetLogsAbort(Error("no log groups found", {}, {}))
              /\ describeCalls' = 0
              /\ availableLogTypes' = {}
         ELSE IF Len(logTypes) > 0
         THEN \E failed \in SUBSET SeqToSet(provGroups) :
                /\ \A g \in SeqToSet(provGroups) : (g \in failed) \in CallOutcomes(g)
                /\ describeCalls' = Len(provGroups)
                /\ availableLogTypes' = getAvailableLogTypes(SeqToSet(provGroups), failed)
                /\ IF validLogTypes(availableLogTypes') = {}
                   THEN GetLogsAbort(Error("no logs found for specified types",
                                           {}, availableLogTypes'))
                   ELSE GetLogsLaunch
         ELSE /\ GetLogsLaunch
              /\ describeCalls' = 0
              /\ availableLogTypes' = {}
    /\ UNCHANGED << reqVars, ctxErr, clock, provVars, limit, tailVars >>

\* client.go:146: make(chan error, len(logGroups)), the capacity of errChan.
errChanCapOneShort == Len(logGroups) - 1

errChanCap == Len(logGroups)

\* errChan <- err; return (the deferred wg.Done ends the worker).
WorkerFailSilently(lg, what) ==
    /\ wpc' = [wpc EXCEPT ![lg] = "failed"]
    /\ UNCHANGED errChan

WorkerFail(lg, what) ==
    /\ Len(errChan) < errChanCap
    /\ errChan' = Append(errChan, [lg |-> lg, what |-> what])
    /\ wpc' = [wpc EXCEPT ![lg] = "failed"]

\* client.go:193-218: the query of a worker; no stream names means every
\* stream of the log group.
BuildInput(lg, currentLogStreamNames) ==
    /\ input' = [input EXCEPT ![lg] =
          [ LogStreamNames |-> currentLogStreamNames, StartTime |-> startTime,
            EndTime |-> endTime, FilterPattern |-> fp, NextToken |-> NoToken,
            Limit |-> pageSize ]]
    /\ wpc' = [wpc EXCEPT ![lg] = "query"]
    /\ UNCHANGED errChan

\* client.go:153-218: resolve the streams of the log group and build the
\* query.  With log types requested the worker asks for the available types
\* of its log group (a failure of that call leaves them empty) and then for
\* the streams of the valid types; without, it lists all streams.
WorkerDescribeStreams(lg) ==
    /\ gpc = "wait"
    /\ wpc[lg] = "streams"
    /\ IF Len(logTypes) > 0
       THEN /\ describeCalls' = describeCalls + 2
            /\ \E typesFail \in CallOutcomes(lg), fails \in CallOutcomes(lg) :
                 LET groupLogTypes ==
                         getAvailableLogTypes({lg}, IF typesFail THEN {lg} ELSE {})
                 IN  IF fails
                     THEN /\ WorkerFail(lg, "failed to get log streams")
                          /\ UNCHANGED input
                     ELSE BuildInput(lg,
                              getLogStreamsForTypes(lg, validLogTypes(groupLogTypes)))
       ELSE /\ describeCalls' = describeCalls + 1
            /\ \E fails \in CallOutcomes(lg) :
                 IF fails
                 THEN /\ WorkerFail(lg, "failed to describe log streams")
                      /\ UNCHANGED input
                 ELSE BuildInput(lg, provStreams[lg])
    /\ UNCHANGED << reqVars, ctxErr, clock, provVars, limit, gpc, getErr, logGroups,
                    availableLogTypes, nextToken, totalEvents, pageCount, resp, evIdx,
                    sink, tailVars >>

\* client.go:227-243: request one page.
WorkerQuery(lg) ==
    /\ gpc = "wait"
    /\ wpc[lg] = "query"
    /\ pageCount' = [pageCount EXCEPT ![lg] = @ + 1]
    /\ LET in == IF nextToken[lg] # NoToken
                 THEN [input[lg] EXCEPT !.NextToken = nextToken[lg]]
                 ELSE input[lg]
       IN  /\ input' = [input EXCEPT ![lg] = in]
           /\ \E fails \in CallOutcomes(lg) :
                IF fails
                THEN /\ WorkerFail(lg, "failed to get logs")
                     /\ UNCHANGED << resp, evIdx >>
                ELSE /\ resp' = [resp EXCEPT ![lg] = FilterLogEvents(lg, in)]
                     /\ evIdx' = [evIdx EXCEPT ![lg] = 1]
                     /\ wpc' = [wpc EXCEPT ![lg] = "events"]
                     /\ UNCHANGED errChan
    /\ UNCHANGED << reqVars, ctxErr, clock, provVars, limit, gpc, getErr, logGroups,
                    describeCalls, availableLogTypes, nextToken, totalEvents, sink, tailVars >>

\* time.Time.UnixNano of a timestamp that time.UnixMilli made.
UnixNano(t) == t * 1000000

\* client.go:410: fmt.Sprintf("%d-%s-%s", ...), the key of an entry in
\* seenEntries.
entryKey(entry) == << UnixNano(entry.Timestamp), entry.LogStream, entry.Message >>

\* time.Time.After
AfterIgnored(t, u) == TRUE

AfterOrEqual(t, u) == t >= u

After(t, u) == t > u

\* client.go:405-423: the printFunc TailLogs passes to GetLogs.
printAndTrackTimestamp(entry) ==
    IF entryKey(entry) \in seenEntries
    THEN UNCHANGED << lastTimestamp, seenEntries, printed >>
    ELSE IF After(entry.Timestamp, lastTimestamp)
    THEN /\ printed' = Append(printed, entry)
         /\ seenEntries' = seenEntries \cup { entryKey(entry) }
         /\ lastTimestamp' = entry.Timestamp
    ELSE UNCHANGED << lastTimestamp, seenEntries, printed >>

\* printFunc(entry): the caller's sink in one-shot retrieval (cmd/root.go:493),
\* printAndTrackTimestamp in tail mode.
printFuncLastFirst(lg, entry) ==
    /\ sink' = [sink EXCEPT ![lg] = << entry >> \o @]
    /\ IF call = "TailLogs"
       THEN printAndTrackTimestamp(entry)
       ELSE UNCHANGED << lastTimestamp, seenEntries, printed >>

printFunc(lg, entry) ==
    /\ sink' = [sink EXCEPT ![lg] = Append(@, entry)]
    /\ IF call = "TailLogs"
       THEN printAndTrackTimestamp(entry)
       ELSE UNCHANGED << lastTimestamp, seenEntries, printed >>

\* client.go:249 and client.go:270: limit > 0 && totalEvents >= limit
limitReachedNever(lg) == FALSE

limitReached(lg) == limit > 0 /\ totalEvents[lg] >= limit

\* client.go:246-267: one iteration of the range loop over resp.Events.
WorkerEvent(lg) ==
    /\ gpc = "wait"
    /\ wpc[lg] = "events"
    /\ evIdx[lg] <= Len(resp[lg].Events)
    /\ LET event == resp[lg].Events[evIdx[lg]]
       IN  IF WellFormed(event.ev)
           THEN IF limitReached(lg)
                THEN \* break
                     /\ evIdx' = [evIdx EXCEPT ![lg] = Len(resp[lg].Events) + 1]
                     /\ UNCHANGED << totalEvents, sink, lastTimestamp, seenEntries, printed >>
                ELSE /\ printFunc(lg, LogEntry(lg, event))
                     /\ totalEvents' = [totalEvents EXCEPT ![lg] = @ + 1]
                     /\ evIdx' = [evIdx EXCEPT ![lg] = @ + 1]
           ELSE /\ evIdx' = [evIdx EXCEPT ![lg] = @ + 1]
                /\ UNCHANGED << totalEvents, sink, lastTimestamp, seenEntries, printed >>
    /\ UNCHANGED << reqVars, ctxErr, clock, provVars, limit, getVars, wpc, input,
                    nextToken, pageCount, resp, tpc, tailErr, now, lastReport, observed >>

\* client.go:269-281: after the events of a page, stop or go on to the next.
WorkerPageEnd(lg) ==
    /\ gpc = "wait"
    /\ wpc[lg] = "events"
    /\ evIdx[lg] > Len(resp[lg].Events)
    /\ IF limitReached(lg)
       THEN /\ wpc' = [wpc EXCEPT ![lg] = "done"]
            /\ UNCHANGED nextToken
       ELSE IF resp[lg].NextToken = NoToken \/ Len(resp[lg].Events) = 0
       THEN /\ wpc' = [wpc EXCEPT ![lg] = "done"]
            /\ UNCHANGED nextToken
       ELSE /\ nextToken' = [nextToken EXCEPT ![lg] = resp[lg].NextToken]
            /\ wpc' = [wpc EXCEPT ![lg] = "query"]
    /\ UNCHANGED << reqVars, ctxErr, clock, provVars, limit, getVars, input,
                    totalEvents, pageCount, resp, evIdx, sink, tailVars >>

\* The warnings collected from errChan (client.go:288-293).
collectedErrors == { errChan[i].lg : i \in 1 .. Len(errChan) }

\* client.go:285: wg.Wait() returns when every worker has called wg.Done
\* (client.go:151).
wgWaitSkipped == TRUE

wgWait == \A g \in SeqToSet(logGroups) : wpc[g] \in {"done", "failed"}

\* client.go:285-298: join the workers and aggregate their errors.
GetLogsReturn ==
    /\ gpc = "wait"
    /\ wgWait
    /\ gpc' = "returned"
    /\ getErr' = IF Cardinality(collectedErrors) > 0
                 THEN Error("encountered errors during log retrieval", collectedErrors, {})
                 ELSE NilError
    /\ UNCHANGED << reqVars, ctxErr, clock, provVars, limit, logGroups, errChan,
                    describeCalls, availableLogTypes, workerVars, tailVars >>

\* -------------------------------------------------------------- TailLogs
\* client.go:369-392: resolve the log groups once, set the watermark.
TailLogsEnter ==
    /\ tpc = "call"
    /\ \E fails \in CallOutcomes(0) :
         IF fails
         THEN /\ tpc' = "returned"
              /\ tailErr' = Error("failed to get log groups", {}, {})
              /\ UNCHANGED << lastTimestamp, seenEntries >>
         ELSE IF noLogGroups(provGroups)
         THEN /\ tpc' = "returned"
              /\ tailErr' = Error("no log groups found", {}, {})
              /\ UNCHANGED << lastTimestamp, seenEntries >>
         ELSE /\ tpc' = "select"
              /\ lastTimestamp' = clock - Minute
              /\ seenEntries' = {}
              /\ UNCHANGED tailErr
    /\ UNCHANGED << reqVars, ctxErr, clock, provVars, limit, getVars, workerVars,
                    now, printed, lastReport, observed >>

\* client.go:398 and client.go:428: ctx.Err() == context.Canceled
isCanceledNever == FALSE
isCanceledAlways == TRUE

isCanceled == ctxErr = "Canceled"

\* client.go:396-401: the select takes <-ctx.Done().
TailCtxDone ==
    /\ tpc = "select"
    /\ ctxErr # "nil"
    /\ tpc' = "returned"
    /\ tailErr' = IF isCanceled THEN NilError
                  ELSE Error(ctxErr, {}, {})
    /\ UNCHANGED << reqVars, ctxErr, clock, provVars, limit, getVars, workerVars,
                    now, lastTimestamp, seenEntries, printed, lastReport, observed >>

\* client.go:402-425: the select takes <-ticker.C; call GetLogs for the
\* window from the watermark to now.
TailTick ==
    /\ tpc = "select"
    /\ clock < TickBound + Minute
    /\ clock' = clock + 1
    /\ now' = clock + 1
    /\ limit' = TailLimit
    /\ gpc' = "call"
    /\ tpc' = "getlogs"
    /\ lastReport' = NilError
    /\ UNCHANGED << reqVars, ctxErr, provVars, getErr, logGroups, errChan,
                    describeCalls, availableLogTypes, workerVars, tailErr, lastTimestamp,
                    seenEntries,
                    printed, observed >>

\* client.go:426-441: GetLogs returned.
TailAfterGetLogs ==
    /\ tpc = "getlogs"
    /\ gpc = "returned"
    /\ gpc' = "idle"
    /\ IF getErr # NilError
       THEN IF isCanceled
            THEN /\ tpc' = "returned"
                 /\ tailErr' = NilError
                 /\ UNCHANGED << seenEntries, lastReport >>
            ELSE \* color.Red("Error getting logs: %v", err); continue
                 /\ tpc' = "select"
                 /\ lastReport' = getErr
                 /\ UNCHANGED << tailErr, seenEntries >>
       ELSE /\ tpc' = "select"
            /\ seenEntries' = IF Cardinality(seenEntries) > SeenThreshold
                              THEN {} ELSE seenEntries
            /\ UNCHANGED << tailErr, lastReport >>
    /\ observed' = observed \cup
         UNION { { entryKey(sink[g][i]) : i \in 1 .. Len(sink[g]) } : g \in GroupIds }
    /\ UNCHANGED << reqVars, ctxErr, clock, provVars, limit, getErr, logGroups,
                    errChan, describeCalls, availableLogTypes, workerVars, now,
                    lastTimestamp, printed >>

\* ---------------------------------------------------- the filter builder
\* A string is the sequence of its characters.  The characters of a filter
\* term: a letter, the exclude marker, the quote, the syntax markers.
Quote == "\""
TermChars == { "a", "-", Quote, "{", "[", "?", "*" }
EmptyString == << >>
Terms(maxLen) == SeqsOf(TermChars, 1, maxLen)

\* A nil *string filter pattern.
NoPattern == << "<nil>" >>

HasSuffix(s, suffix) ==
    /\ Len(suffix) <= Len(s)
    /\ SubSeq(s, Len(s) - Len(suffix) + 1, Len(s)) = suffix

Contains(s, c) == \E i \in 1 .. Len(s) : s[i] = c

\* fmt.Sprintf("\"%s\"", pattern)
Quoted(pattern) == << Quote >> \o pattern \o << Quote >>

\* strings.Join(parts, sep)
RECURSIVE Join(_, _)
Join(parts, sep) ==
    IF Len(parts) = 0 THEN EmptyString
    ELSE IF Len(parts) = 1 THEN parts[1]
    ELSE parts[1] \o sep \o Join(Tail(parts), sep)

\* cmd/root.go:425-429 and 455-459: is the term a simple text search, to be
\* wrapped in quotes?
simpleText(pattern) ==
    /\ ~HasPrefix(pattern, << Quote >>) /\ ~HasSuffix(pattern, << Quote >>)
    /\ ~Contains(pattern, "{") /\ ~Contains(pattern, "[")
    /\ ~Contains(pattern, "?") /\ ~Contains(pattern, "*")
    /\ ~Contains(pattern, "-")

\* cmd/root.go:419-446: the include term as it goes into the pattern.
includePart(pattern) == IF simpleText(pattern) THEN Quoted(pattern) ELSE pattern

\* cmd/root.go:449-474: the exclude term as it goes into the pattern.
ignorePart(pattern) ==
    IF simpleText(pattern) THEN << "-" >> \o Quoted(pattern) ELSE << "-" >> \o pattern

\* cmd/root.go:476-481: the include part and the exclude part put together.
combinePartsNoSpace(combinedPattern, ignorePattern) == combinedPattern \o ignorePattern

combineParts(combinedPattern, ignorePattern) ==
    IF combinedPattern # EmptyString
    THEN combinedPattern \o << " " >> \o ignorePattern
    ELSE ignorePattern

\* cmd/root.go:414-491: the command builds the filter pattern it passes to
\* GetLogs or TailLogs from its two flags.
BuildFilter ==
    /\ fpc = "build"
    /\ fpc' = "limit"
    /\ IF filterPattern # EmptyString \/ ignoreFilterPattern # EmptyString
       THEN LET included == IF filterPattern # EmptyString
                            THEN includePart(filterPattern) ELSE EmptyString
                combinedPattern ==
                    IF ignoreFilterPattern # EmptyString
                    THEN combineParts(included, ignorePart(ignoreFilterPattern))
                    ELSE included
            IN  fp' = IF combinedPattern # EmptyString THEN combinedPattern ELSE NoPattern
       ELSE fp' = NoPattern
    /\ UNCHANGED << call, logTypes, filterPattern, ignoreFilterPattern, includePatterns,
                    ignorePatterns, result, limitFlag, limitSpecified, ctxErr, clock,
                    provVars, limit, getVars, workerVars, tailVars >>

\* cmd/root.go:534-540: the limit the command passes to GetLogs.
effectiveLimitIsFlag == limitFlag

effectiveLimit == IF limitSpecified THEN limitFlag ELSE 0

\* cmd/root.go:534-542: in one-shot mode the command works out the limit of
\* its GetLogs call.
ApplyLimit ==
    /\ fpc = "limit"
    /\ fpc' = "done"
    /\ limit' = effectiveLimit
    /\ UNCHANGED << call, logTypes, filterPattern, ignoreFilterPattern, includePatterns,
                    ignorePatterns, fp, result, limitFlag, limitSpecified, ctxErr, clock,
                    provVars, getVars, workerVars, tailVars >>

\* part_008:355-376: one term of a list of filter terms as it goes into the
\* pattern.
processFilterPattern(pattern, isIgnore) ==
    LET needsQuoting ==
            /\ ~HasPrefix(pattern, << Quote >>) /\ ~HasSuffix(pattern, << Quote >>)
            /\ ~Contains(pattern, "{") /\ ~Contains(pattern, "[")
            /\ ~Contains(pattern, "?") /\ ~Contains(pattern, "*")
            /\ ~HasPrefix(pattern, << "-" >>)
        quoted == IF needsQuoting THEN Quoted(pattern) ELSE pattern
    IN  IF isIgnore THEN << "-" >> \o quoted ELSE quoted

\* part_008:329-348: a list of include terms and a list of exclude terms
\* made into one pattern.
CombinePatterns ==
    /\ fpc = "combine"
    /\ fpc' = "done"
    /\ LET includeParts == [i \in 1 .. Len(includePatterns) |->
                                processFilterPattern(includePatterns[i], FALSE)]
           ignoreParts == [i \in 1 .. Len(ignorePatterns) |->
                                processFilterPattern(ignorePatterns[i], TRUE)]
           parts == (IF Len(includePatterns) > 0
                     THEN << Join(includeParts, << " " >>) >> ELSE << >>) \o ignoreParts
       IN  result' = Join(parts, << " " >>)
    /\ UNCHANGED << call, logTypes, filterPattern, ignoreFilterPattern, includePatterns,
                    ignorePatterns, fp, limitFlag, limitSpecified, ctxErr, clock,
                    provVars, limit, getVars, workerVars, tailVars >>

\* ------------------------------------------------------------------ Init
\* GetLogs is called with a limit on a provider that holds some log groups.
InitGetLogs ==
    /\ call = "GetLogs"
    /\ logTypes = << >>
    /\ limit \in 0 .. MaxLimit
    /\ \E n \in 0 .. MaxGroups :
         /\ provGroups = [i \in 1 .. n |-> i]
         /\ \E c \in [1 .. n -> UNION { ProviderContents(n, g) : g \in 1 .. n }] :
              /\ \A g \in 1 .. n : c[g] \in ProviderContents(n, g)
              /\ provPages = [g \in GroupIds |-> IF g <= n THEN c[g] ELSE << << >> >>]
    /\ gpc = "call"
    /\ tpc = "idle"

\* GetLogs is called with log types on a provider whose log groups hold one
\* event in each of their streams.
InitGetLogsTyped ==
    /\ call = "GetLogs"
    /\ logTypes \in TypedRequests
    /\ limit \in 0 .. MaxLimit
    /\ \E n \in 0 .. MaxGroups : provGroups = [i \in 1 .. n |-> i]
    /\ provPages = [g \in GroupIds |-> TypedContents(g)]
    /\ gpc = "call"
    /\ tpc = "idle"

\* TailLogs is called on a provider whose log groups are still empty; log
\* types are requested only when there is at most one log group.
InitTailLogs ==
    /\ call = "TailLogs"
    /\ limit = TailLimit
    /\ \E n \in 0 .. MaxGroups :
         /\ provGroups = [i \in 1 .. n |-> i]
         /\ logTypes \in IF n <= 1 THEN { << >> } \cup TypedRequests ELSE { << >> }
    /\ provPages = [g \in GroupIds |-> << << >> >>]
    /\ gpc = "idle"
    /\ tpc = "call"

\* The flag --limit: not given, or given with a value (also with the value
\* of its default).
InitLimitFlag ==
    \/ limitSpecified = FALSE /\ limitFlag = defaultLimit
    \/ limitSpecified = TRUE /\ limitFlag \in (0 .. MaxLimit) \cup { defaultLimit }

\* The command was given no filter flags; its GetLogs call has a limit iff
\* the flag --limit was given.
InitNoFilter ==
    /\ limitSpecified = (call = "GetLogs" /\ limit # 0)
    /\ limitFlag = IF limitSpecified THEN limit ELSE defaultLimit
    /\ filterPattern = EmptyString
    /\ ignoreFilterPattern = EmptyString
    /\ includePatterns = << >>
    /\ ignorePatterns = << >>
    /\ fpc = "done"
    /\ fp = NoPattern
    /\ result = EmptyString

InitRest ==
    /\ ctxErr = "nil"
    /\ clock = Minute
    /\ provStreams = [g \in GroupIds |-> Streams(g)]
    /\ getErr = NilError
    /\ logGroups = << >>
    /\ errChan = << >>
    /\ describeCalls = 0
    /\ availableLogTypes = {}
    /\ wpc = [g \in GroupIds |-> "idle"]
    /\ input = [g \in GroupIds |-> NoInput]
    /\ nextToken = [g \in GroupIds |-> NoToken]
    /\ totalEvents = [g \in GroupIds |-> 0]
    /\ pageCount = [g \in GroupIds |-> 0]
    /\ resp = [g \in GroupIds |-> NoResp]
    /\ evIdx = [g \in GroupIds |-> 1]
    /\ sink = [g \in GroupIds |-> << >>]
    /\ tailErr = NilError
    /\ now = clock
    /\ lastTimestamp = clock - Minute
    /\ seenEntries = {}
    /\ printed = << >>
    /\ lastReport = NilError
    /\ observed = {}

\* TailLogs is called while the last log group is out of service: every
\* call on it fails, every other call succeeds, nobody cancels.
InitOutage ==
    /\ InitRest
    /\ call = "TailLogs"
    /\ logTypes \in { << >>, << "api" >> }
    /\ limit = TailLimit
    /\ provGroups = [i \in 1 .. MaxGroups |-> i]
    /\ provPages = [g \in GroupIds |-> << << >> >>]
    /\ provFaults = [any |-> FALSE, groups |-> { MaxGroups }]
    /\ gpc = "idle"
    /\ tpc = "call"
    /\ InitNoFilter

Init ==
    /\ InitRest
    /\ provFaults = AnyFault
    /\ (InitGetLogs \/ InitGetLogsTyped \/ InitTailLogs)
    /\ InitNoFilter

Worker(lg) ==
    \/ WorkerDescribeStreams(lg)
    \/ WorkerQuery(lg)
    \/ WorkerEvent(lg)
    \/ WorkerPageEnd(lg)

Next ==
    \/ GetLogsEnter
    \/ \E lg \in GroupIds : Worker(lg)
    \/ GetLogsReturn
    \/ TailLogsEnter
    \/ TailCtxDone
    \/ TailTick
    \/ TailAfterGetLogs
    \/ \E lg \in GroupIds : Emit(lg)
    \/ Cancel

Spec == Init /\ [][Next]_vars

\* A tail session during the outage of one log group.
NextOutage ==
    \/ GetLogsEnter
    \/ \E lg \in GroupIds : Worker(lg)
    \/ GetLogsReturn
    \/ TailLogsEnter
    \/ TailTick
    \/ TailAfterGetLogs
    \/ \E lg \in GroupIds : Emit(lg)

SpecOutage == InitOutage /\ [][NextOutage]_vars

\* GetLogs and TailLogs under fair scheduling: a goroutine that can take a
\* step takes one, and a select with a ready case takes one.
SpecFair == Init /\ [][Next]_vars /\ WF_vars(Next)

\* The filter builder alone.  The command builds a pattern from its two
\* flags, one of them a term of up to MaxTermLen characters and the other
\* absent or one character; or the list combiner is given up to MaxTerms
\* include terms and MaxTerms exclude terms of one character.
InitFilter ==
    /\ InitRest
    /\ provFaults = AnyFault
    /\ call = "filter"
    /\ logTypes = << >>
    /\ limit = 0
    /\ provGroups = << >>
    /\ provPages = [g \in GroupIds |-> << << >> >>]
    /\ gpc = "idle"
    /\ tpc = "idle"
    /\ fp = NoPattern
    /\ result = EmptyString
    /\ \/ /\ fpc = "build"
          /\ InitLimitFlag
          /\ includePatterns = << >>
          /\ ignorePatterns = << >>
          /\ \E long \in Terms(MaxTermLen) \cup { EmptyString },
                short \in Terms(1) \cup { EmptyString } :
               \/ filterPattern = long /\ ignoreFilterPattern = short
               \/ filterPattern = short /\ ignoreFilterPattern = long
       \/ /\ fpc = "combine"
          /\ limitSpecified = FALSE /\ limitFlag = defaultLimit
          /\ filterPattern = EmptyString
          /\ ignoreFilterPattern = EmptyString
          /\ includePatterns \in SeqsOf(Terms(1), 0, MaxTerms)
          /\ ignorePatterns \in SeqsOf(Terms(1), 0, MaxTerms)

NextFilter ==
    \/ BuildFilter
    \/ ApplyLimit
    \/ CombinePatterns

SpecFilter == InitFilter /\ [][NextFilter]_vars

\* ------------------------------------------------------------ properties
launched == SeqToSet(logGroups)

\* The positions of the well-formed events a log group holds, and of the
\* entries its worker passed to printFunc.
WellFormedIds(lg) ==
    { << p, i >> \in (1 .. Len(provPages[lg])) \X (1 .. MaxPageLen + MaxTicks + MaxOutageTicks) :
        /\ i <= Len(provPages[lg][p])
        /\ WellFormed(provPages[lg][p][i]) }
SinkIds(lg) == { sink[lg][k].id : k \in 1 .. Len(sink[lg]) }

RECURSIVE SumOver(_, _)
SumOver(f, S) ==
    IF S = {} THEN 0
    ELSE LET x == CHOOSE y \in S : TRUE IN f[x] + SumOver(f, S \ {x})

delivered == SumOver([g \in GroupIds |-> Len(sink[g])], GroupIds)
available == SumOver([g \in GroupIds |-> Cardinality(WellFormedIds(g))], launched)
Min(a, b) == IF a <= b THEN a ELSE b
OneShotReturned == call = "GetLogs" /\ gpc = "returned"

\* C1: in one GetLogs call with limit > 0 the entries delivered to the sink,
\* summed over all log groups, never exceed limit.
C1_TotalWithinLimit ==
    (call = "GetLogs" /\ limit > 0) => delivered <= limit

\* C2: a GetLogs call for all log types with limit > 0 in which no provider
\* call failed has delivered exactly min(limit, well-formed events
\* available) entries when it returns.
C2_ExactlyMinLimitAvailable ==
    (OneShotReturned /\ Len(logTypes) = 0 /\ limit > 0 /\ getErr = NilError /\ launched # {})
        => delivered = Min(limit, available)

\* C3: a GetLogs call for all log types with limit = 0 in which no provider
\* call failed has delivered every well-formed event of every page of every
\* log group exactly once, also when a page that carries a token holds no
\* events.
C3_UnlimitedDeliversAllOnce ==
    (OneShotReturned /\ Len(logTypes) = 0 /\ limit = 0 /\ getErr = NilError)
        => \A g \in launched :
             /\ SinkIds(g) = WellFormedIds(g)
             /\ Len(sink[g]) = Cardinality(SinkIds(g))

\* C4: when the fetch of one log group fails in a GetLogs call for all log
\* types, every available entry of every log group that did not fail is
\* still delivered (up to the limit, if there is one), and GetLogs returns
\* one aggregate error that names exactly the failing log groups.
C4_FailureSparesSiblings ==
    (OneShotReturned /\ Len(logTypes) = 0 /\ \E g \in launched : wpc[g] = "failed")
        => /\ getErr.kind = "encountered errors during log retrieval"
           /\ getErr.groups = { g \in launched : wpc[g] = "failed" }
           /\ \A g \in launched :
                wpc[g] = "done" =>
                    IF limit = 0 THEN SinkIds(g) = WellFormedIds(g)
                    ELSE Len(sink[g]) >= Min(limit, Cardinality(WellFormedIds(g)))

\* C5: once workers are launched, GetLogs returns a non-nil error if and
\* only if some worker recorded a failure; skipped malformed events and a
\* limit that cut delivery short do not make an error.
C5_ErrorIffWorkerFailed ==
    (gpc = "returned" /\ launched # {})
        => (getErr # NilError <=> \E g \in launched : wpc[g] = "failed")

\* C5 witness: GetLogs returned nil although a malformed event was skipped
\* and the limit left well-formed events undelivered.
C5_Witness ==
    /\ OneShotReturned /\ launched # {} /\ getErr = NilError
    /\ \E g \in launched :
         /\ \E p \in 1 .. Len(provPages[g]) : \E i \in 1 .. Len(provPages[g][p]) :
              ~WellFormed(provPages[g][p][i])
         /\ limit > 0
         /\ Len(sink[g]) = limit
         /\ Cardinality(WellFormedIds(g)) > limit

\* C6: a GetLogs call whose context is cancelled while its workers are
\* fetching returns nil.
C6_CancelledGetLogsReturnsNil ==
    (OneShotReturned /\ launched # {} /\ ctxErr = "Canceled") => getErr = NilError

\* C7: TailLogs leaves its loop only on a cancelled context, and then it
\* returns nil: when the cancellation is seen in the select and when it made
\* the GetLogs call of a tick fail.
C7_TailCancelReturnsNil ==
    [][ (tpc \in {"select", "getlogs"} /\ tpc' = "returned")
            => (ctxErr = "Canceled" /\ tailErr' = NilError) ]_vars

\* C7 witness: TailLogs returned nil after the GetLogs call of a tick failed
\* under a cancelled context.
C7_Witness ==
    /\ tpc = "returned" /\ tailErr = NilError /\ ctxErr = "Canceled"
    /\ gpc = "idle" /\ getErr # NilError /\ Len(printed) > 0

\* How often TailLogs passed an entry with this key to log.PrintLog.
PrintCount(key) == Cardinality({ k \in 1 .. Len(printed) : entryKey(printed[k]) = key })

\* C8: an event that an earlier tick and the current tick both returned has
\* been printed exactly once.
C8_SeenTwicePrintedOnce ==
    \A g \in GroupIds : \A i \in 1 .. Len(sink[g]) :
        (call = "TailLogs" /\ gpc \in {"wait", "returned"}
            /\ entryKey(sink[g][i]) \in observed)
            => PrintCount(entryKey(sink[g][i])) = 1

\* C9: the seen-entry index never holds more than the clearing threshold
\* plus the entries one tick can add.
C9_SeenEntriesBounded ==
    call = "TailLogs"
        => Cardinality(seenEntries) <= SeenThreshold + TailLimit * Len(provGroups)

\* C10: when discovery returns no log groups, GetLogs and TailLogs return an
\* error, no worker is launched, no stream or event query is made, the sink
\* is never invoked and TailLogs starts no tick.
C10_NoLogGroupsIsAnError ==
    Len(provGroups) = 0
        => /\ \A g \in GroupIds : wpc[g] = "idle" /\ pageCount[g] = 0 /\ sink[g] = << >>
           /\ describeCalls = 0
           /\ printed = << >>
           /\ gpc = "returned" => getErr # NilError
           /\ call = "TailLogs" => gpc = "idle" /\ tpc \in {"call", "returned"}
           /\ tpc = "returned" => tailErr # NilError

\* C10 witness: TailLogs returned the "no log groups" error.
C10_Witness ==
    /\ call = "TailLogs" /\ Len(provGroups) = 0
    /\ tpc = "returned" /\ tailErr.kind = "no log groups found"

\* The log types that occur in the streams of the log groups of the cluster.
presentLogTypes == getAvailableLogTypes(SeqToSet(provGroups), {})

\* GetLogs has resolved a non-empty list of log groups.
groupsResolved ==
    /\ gpc \in {"wait", "returned"}
    /\ getErr.kind \notin {"failed to get log groups", "no log groups found"}

\* C11: when log types are requested and none of them, normalized, is among
\* the log types GetLogs found in the streams of the log groups, GetLogs
\* returns the "no logs found for specified types" error with the types it
\* found, starts no worker, makes no event query and never calls the sink.
C11_NoMatchingLogs ==
    (groupsResolved /\ Len(logTypes) > 0
        /\ (normalizedLogTypes \cap availableLogTypes = {}
                \/ normalizedLogTypes \cap presentLogTypes = {}))
        => /\ gpc = "returned"
           /\ getErr.kind = "no logs found for specified types"
           /\ getErr.types = availableLogTypes
           /\ availableLogTypes \subseteq presentLogTypes
           /\ launched = {}
           /\ \A g \in GroupIds :
                wpc[g] = "idle" /\ pageCount[g] = 0 /\ sink[g] = << >>

\* C11 witness: a one-shot call for the alias "sched" on two log groups
\* returned the error with the two log types that are there.
C11_Witness ==
    /\ OneShotReturned /\ logTypes = << "sched" >> /\ Len(provGroups) = 2
    /\ getErr = Error("no logs found for specified types", {}, {"api", "audit"})

\* The quoting rule: a term is wrapped in quotes iff it does not start and
\* end with a quote, holds none of { [ ? * and does not start with "-".
needsQuoting(term) ==
    /\ ~(HasPrefix(term, << Quote >>) /\ HasSuffix(term, << Quote >>))
    /\ ~Contains(term, "{") /\ ~Contains(term, "[")
    /\ ~Contains(term, "?") /\ ~Contains(term, "*")
    /\ ~HasPrefix(term, << "-" >>)
quotedByRule(term) == IF needsQuoting(term) THEN Quoted(term) ELSE term

\* C12: the filter builder wraps a term in double quotes iff the quoting
\* rule says so (a plain term with an inner hyphen is wrapped), and passes
\* every other term through as it is; an exclude term then gets its "-".
C12_QuotedIffRule ==
    (call = "filter" /\ fpc = "done")
        => /\ (filterPattern # EmptyString /\ ignoreFilterPattern = EmptyString)
                => fp = quotedByRule(filterPattern)
           /\ (filterPattern = EmptyString /\ ignoreFilterPattern # EmptyString)
                => fp = << "-" >> \o quotedByRule(ignoreFilterPattern)
           /\ (Len(includePatterns) = 1 /\ Len(ignorePatterns) = 0)
                => result = quotedByRule(includePatterns[1])
           /\ (Len(includePatterns) = 0 /\ Len(ignorePatterns) = 1)
                => result = << "-" >> \o quotedByRule(ignorePatterns[1])

\* pattern is made of the include terms in their order and then the exclude
\* terms in their order, each term as it is or wrapped in quotes, each
\* exclude term with "-" put before it (before its quote, if it has one),
\* and exactly one space between two neighbours.
combinedOf(pattern, includes, excludes) ==
    \E q \in [1 .. Len(includes) -> BOOLEAN], r \in [1 .. Len(excludes) -> BOOLEAN] :
        pattern = Join(
            [i \in 1 .. Len(includes) |->
                IF q[i] THEN Quoted(includes[i]) ELSE includes[i]]
            \o [j \in 1 .. Len(excludes) |->
                << "-" >> \o (IF r[j] THEN Quoted(excludes[j]) ELSE excludes[j])],
            << " " >>)

termList(flag) == IF flag = EmptyString THEN << >> ELSE << flag >>

\* C13: the combined pattern is the processed include terms in their order,
\* then the processed exclude terms in their order with "-" before each, one
\* space between neighbours and none at either end; without any term the
\* list combiner gives the empty string and the command passes no filter.
C13_CombinedPattern ==
    (call = "filter" /\ fpc = "done")
        => /\ IF filterPattern = EmptyString /\ ignoreFilterPattern = EmptyString
              THEN fp = NoPattern
              ELSE combinedOf(fp, termList(filterPattern), termList(ignoreFilterPattern))
           /\ IF Len(includePatterns) = 0 /\ Len(ignorePatterns) = 0
              THEN result = EmptyString
              ELSE combinedOf(result, includePatterns, ignorePatterns)

\* C13 witness: the command was given an include term and an exclude term,
\* and the list combiner two of each.
C13_Witness ==
    /\ call = "filter" /\ fpc = "done"
    /\ \/ /\ filterPattern = << "a", "a", "a" >> /\ ignoreFilterPattern = << "*" >>
          /\ fp = << Quote, "a", "a", "a", Quote, " ", "-", "*" >>
       \/ /\ includePatterns = << << "a" >>, << "*" >> >>
          /\ ignorePatterns = << << "?" >>, << "a" >> >>
          /\ result = << Quote, "a", Quote, " ", "*", " ", "-", "?", " ", "-", Quote, "a", Quote >>

\* The worker of lg is at an event that lacks a field.
atMalformed(lg) ==
    /\ gpc = "wait" /\ wpc[lg] = "events"
    /\ evIdx[lg] <= Len(resp[lg].Events)
    /\ \/ resp[lg].Events[evIdx[lg]].ev.Timestamp = NoTimestamp
       \/ resp[lg].Events[evIdx[lg]].ev.LogStreamName = NoName
       \/ resp[lg].Events[evIdx[lg]].ev.Message = NoString

\* C14: an event that lacks a timestamp, a stream name or a message is
\* skipped silently.  The step of a worker over such an event does not call
\* the sink, does not count towards the limit and sends no error; no entry
\* in the sink comes from such an event; and a worker that read only
\* non-empty pages without a failure delivered min(limit, well-formed
\* events) entries, however many events it skipped.
C14_MalformedSkipped ==
    /\ [](\A g \in GroupIds :
            /\ call = "GetLogs" => SinkIds(g) \subseteq WellFormedIds(g)
            /\ totalEvents[g] = Len(sink[g])
            /\ (OneShotReturned /\ Len(logTypes) = 0 /\ limit > 0 /\ wpc[g] = "done"
                  /\ \A p \in 1 .. Len(provPages[g]) : Len(provPages[g][p]) > 0)
                 => Len(sink[g]) = Min(limit, Cardinality(WellFormedIds(g))))
    /\ [][\A g \in GroupIds :
            (atMalformed(g) /\ evIdx'[g] # evIdx[g])
                => /\ sink' = sink /\ printed' = printed
                   /\ totalEvents' = totalEvents
                   /\ errChan' = errChan
                   /\ wpc'[g] = "events" /\ evIdx'[g] = evIdx[g] + 1]_vars

\* C14 witness: with limit 1 the worker skipped an event without a message
\* and then delivered the well-formed event after it.
C14_Witness ==
    /\ OneShotReturned /\ getErr = NilError /\ limit = 1
    /\ provPages[1] = << << MalformedEvent(1, 1), WellFormedEvent(1, 1) >> >>
    /\ Len(sink[1]) = 1 /\ sink[1][1].id = << 1, 2 >>

\* C15: with log types requested, every entry delivered to the sink comes
\* from a stream whose type is requested, in every log group; a log group
\* without a stream of a requested type delivers nothing.
C15_OnlyRequestedTypes ==
    (call = "GetLogs" /\ Len(logTypes) > 0)
        => \A g \in GroupIds : \A k \in 1 .. Len(sink[g]) :
             ExtractLogTypeFromStreamName(sink[g][k].LogStream) \in normalizedLogTypes

\* C16: a tick whose GetLogs call returned an error under a context that is
\* not cancelled does not end TailLogs: the step after it prints the error
\* and goes back to the select for the next tick, tick after tick.
C16_TailSurvivesFailingTick ==
    /\ [][(tpc = "getlogs" /\ gpc = "returned" /\ getErr # NilError /\ ctxErr = "nil"
            /\ gpc' # gpc)
            => (tpc' = "select" /\ tailErr' = tailErr /\ lastReport' = getErr)]_vars
    /\ []((tpc = "select" /\ clock > Minute) => lastReport # NilError)
    /\ [](tpc # "returned")

\* C16 witness: the GetLogs call of every tick failed and TailLogs is
\* waiting for the next tick.
C16_Witness ==
    /\ call = "TailLogs" /\ tpc = "select" /\ clock = MaxOutageTicks + Minute
    /\ lastReport.kind = "encountered errors during log retrieval"

queries(lg) == pageCount'[lg] = pageCount[lg] + 1

\* C18: every event query asks for a page of min(1000, remaining budget)
\* events when limit > 0, and of 1000 events when limit = 0.
C18_PageSizeWithinBudget ==
    [][\A g \in GroupIds :
        (call = "GetLogs" /\ gpc = "wait" /\ wpc[g] = "query" /\ queries(g))
            => input'[g].Limit = IF limit = 0 THEN pageSize
                                 ELSE Min(pageSize, limit - delivered)]_vars

\* C19: once a worker has delivered limit entries, no sibling worker issues
\* a further event query or delivers a further entry, and the worker that
\* reached the limit reports no error when it stops.
C19_SiblingsStopAtLimit ==
    [][\A g \in GroupIds :
        (call = "GetLogs" /\ gpc = "wait" /\ limit > 0 /\ totalEvents[g] >= limit)
            => /\ \A h \in GroupIds \ {g} :
                    pageCount'[h] = pageCount[h] /\ sink'[h] = sink[h]
               /\ wpc'[g] # wpc[g] => errChan' = errChan]_vars

\* The worker of lg has budget left.
budgetRemains(lg) == limit = 0 \/ totalEvents[lg] < limit

\* C20: a worker asks for the next page iff the response carried a token and
\* budget remains: a worker that went on to another query had both, and a
\* worker that returned without a failure had no token or no budget, also
\* when the page held no events.
C20_NextPageIffTokenAndBudget ==
    \A g \in GroupIds :
        (call = "GetLogs" /\ gpc \in {"wait", "returned"})
            => /\ (wpc[g] = "query" /\ pageCount[g] > 0)
                    => (resp[g].NextToken # NoToken /\ budgetRemains(g))
               /\ wpc[g] = "done"
                    => (resp[g].NextToken = NoToken \/ ~budgetRemains(g))

\* The positions of the well-formed events that the first p pages of the
\* log group return to the query of its worker, in provider order.
RECURSIVE fetchedIds(_, _)
fetchedIds(lg, p) ==
    IF p = 0 THEN << >>
    ELSE LET page == SelectSeq(Matching(provPages[lg][p], p, 1, input[lg]),
                               LAMBDA e : WellFormed(e.ev))
         IN  fetchedIds(lg, p - 1) \o [k \in 1 .. Len(page) |-> page[k].id]
sinkIdSeq(lg) == [k \in 1 .. Len(sink[lg]) |-> sink[lg][k].id]
IsPrefix(s, t) == Len(s) <= Len(t) /\ SubSeq(t, 1, Len(s)) = s

\* C21: the entries a worker passed to the sink are, in order, a prefix of
\* the pages it fetched, page after page and each page in its own order,
\* and all of them when there is no limit and the worker finished, whatever
\* the workers of other log groups do in between.
C21_ProviderOrderWithinGroup ==
    \A g \in launched :
        gpc \in {"wait", "returned"}
            => /\ IsPrefix(sinkIdSeq(g), fetchedIds(g, pageCount[g]))
               /\ (limit = 0 /\ wpc[g] = "done")
                    => sinkIdSeq(g) = fetchedIds(g, pageCount[g])

\* C21 witness: two workers ran side by side and each delivered the events
\* of two pages.
C21_Witness ==
    /\ OneShotReturned /\ Len(logGroups) = 2
    /\ \A g \in launched :
         /\ Len(sink[g]) >= 3
         /\ sink[g][1].id[1] = 1
         /\ sink[g][Len(sink[g])].id[1] = 2

\* A worker is running: it has been started and has not returned.
running(lg) == wpc[lg] \in {"streams", "query", "events"}

\* C22: when GetLogs has returned, and until it is called again, every
\* worker it started has finished, no entry reaches the sink and no provider
\* call is made; when a tick of a tail session calls GetLogs, no worker of
\* the tick before is running.
C22_NoWorkerOutlivesGetLogs ==
    /\ [](gpc \in {"returned", "idle", "call"} => \A g \in GroupIds : ~running(g))
    /\ [][(gpc = "returned" \/ gpc = "idle")
            => (sink' = sink /\ printed' = printed /\ pageCount' = pageCount
                /\ describeCalls' = describeCalls /\ wpc' = wpc)]_vars

\* C22 witness: the second tick of a tail session calls GetLogs after the
\* workers of the first tick, one of which failed, delivered an entry.
C22_Witness ==
    /\ call = "TailLogs" /\ tpc = "getlogs" /\ gpc = "call" /\ clock = Minute + 2
    /\ Len(logGroups) = 2 /\ Len(printed) > 0
    /\ \E g \in launched : wpc[g] = "failed"

\* The worker of lg has built its query.
built(lg) == wpc[lg] \in {"query", "events", "done"} \/ pageCount[lg] > 0

\* C23: within one tick of a tail session all workers send the same window
\* start: a watermark that the callback of one worker advanced during the
\* tick does not reach the query of a sibling.
C23_SameWindowStartInTick ==
    (call = "TailLogs" /\ gpc \in {"wait", "returned"})
        => \A g, h \in launched :
             (built(g) /\ built(h)) => input[g].StartTime = input[h].StartTime

\* The worker of lg passes an entry to the callback of the tail session in
\* this step; the entry is the last one of its sink afterwards.
callsBack(lg) == call = "TailLogs" /\ Len(sink'[lg]) = Len(sink[lg]) + 1
passedEntry(lg) == sink'[lg][Len(sink'[lg])]

\* C24: in tail mode an entry whose key is not in seenEntries and whose
\* timestamp is equal to or later than the watermark is printed and its key
\* recorded, so two different entries with one timestamp are both printed.
C24_NotEarlierIsDelivered ==
    [][\A g \in GroupIds :
        (callsBack(g) /\ entryKey(passedEntry(g)) \notin seenEntries
            /\ passedEntry(g).Timestamp >= lastTimestamp)
            => (printed' = Append(printed, passedEntry(g))
                /\ entryKey(passedEntry(g)) \in seenEntries')]_vars

\* The latest timestamp among the entries printed so far, the watermark
\* TailLogs started with if there is none.
RECURSIVE latestOf(_, _)
latestOf(entries, least) ==
    IF Len(entries) = 0 THEN least
    ELSE LET rest == latestOf(Tail(entries), least)
         IN  IF Head(entries).Timestamp > rest THEN Head(entries).Timestamp ELSE rest
initialWatermark == Minute - Minute

\* C25: the watermark of a tail session never moves back, it is the latest
\* timestamp among the entries printed so far (its initial value if none
\* was printed), and a callback that prints nothing leaves it as it is.
C25_WatermarkIsLatestDelivered ==
    /\ [](call = "TailLogs" => lastTimestamp = latestOf(printed, initialWatermark))
    /\ [][call = "TailLogs"
            => (lastTimestamp' >= lastTimestamp
                /\ (printed' = printed => lastTimestamp' = lastTimestamp))]_vars

\* C25 witness: two entries were printed in different ticks, the watermark
\* is the timestamp of the later one, and an entry older than the watermark
\* was passed to the callback and discarded.
C25_Witness ==
    /\ call = "TailLogs" /\ Len(printed) >= 2
    /\ lastTimestamp = printed[Len(printed)].Timestamp
    /\ lastTimestamp > printed[1].Timestamp
    /\ \E g \in GroupIds : \E i \in 1 .. Len(sink[g]) :
         /\ sink[g][i].Timestamp < lastTimestamp
         /\ PrintCount(entryKey(sink[g][i])) = 0

\* The ticker of the tail session has stopped and no tick is under way.
sessionOver == call = "TailLogs" /\ tpc = "select" /\ clock = TickBound + Minute

\* The keys of the entries the workers of the last tick passed to the
\* callback.
lastTickKeys == UNION { { entryKey(sink[g][i]) : i \in 1 .. Len(sink[g]) } : g \in GroupIds }

\* C26: every event the provider returned to a worker in some tick of a
\* tail session (its timestamp is then not earlier than the watermark of
\* the start of that tick) has been printed at least once, in that tick or
\* a later one: when the session is over, every event that a tick before
\* the last one returned and the last one did not has been printed.
C26_NewEntryDeliveredAtLeastOnce ==
    sessionOver => \A key \in observed \ lastTickKeys : PrintCount(key) >= 1

\* C27: with limit > 0 a worker delivers at most limit entries and issues
\* no query once it has delivered limit entries, so a GetLogs call on G log
\* groups delivers at most G * limit entries, and a tick of a tail session
\* passes at most G times its per-tick limit to the callback.
C27_PerWorkerLimit ==
    /\ []((limit > 0 /\ gpc \in {"wait", "returned"})
            => /\ \A g \in GroupIds : Len(sink[g]) <= limit /\ totalEvents[g] = Len(sink[g])
               /\ delivered <= Len(logGroups) * limit
               /\ call = "TailLogs" => delivered <= Len(logGroups) * TailLimit)
    /\ [][\A g \in GroupIds :
            (limit > 0 /\ totalEvents[g] >= limit /\ gpc = "wait")
                => pageCount'[g] = pageCount[g]]_vars

\* C27 witness: a GetLogs call with limit 1 on two log groups that hold more
\* delivered one entry of each, twice the limit.
C27_Witness ==
    /\ OneShotReturned /\ Len(logGroups) = 2 /\ limit = 1 /\ delivered = 2
    /\ \A g \in launched : Cardinality(WellFormedIds(g)) > 1 /\ pageCount[g] = 1

\* C28: over a tail session the timestamps of the printed entries increase
\* strictly in the order of printing, so no entry is printed twice, also
\* not in the tick after seenEntries was cleared.
C28_PrintedStrictlyIncreasing ==
    call = "TailLogs"
        => /\ \A k \in 1 .. Len(printed) - 1 :
                printed[k].Timestamp < printed[k + 1].Timestamp
           /\ \A k \in 1 .. Len(printed) : PrintCount(entryKey(printed[k])) = 1

\* C28 witness: seenEntries was cleared after two entries were printed, and
\* the next tick passed a printed entry to the callback again.
C28_Witness ==
    /\ call = "TailLogs" /\ gpc = "returned" /\ Len(printed) >= 2
    /\ \E g \in GroupIds : \E i \in 1 .. Len(sink[g]) :
         /\ entryKey(sink[g][i]) \in observed
         /\ entryKey(sink[g][i]) \notin seenEntries
         /\ PrintCount(entryKey(sink[g][i])) = 1

sentErrors(lg) == Cardinality({ i \in 1 .. Len(errChan) : errChan[i].lg = lg })

\* C30: GetLogs does not deadlock on errChan.  A worker sends at most one
\* error and has returned when it has sent one; the capacity of errChan is
\* the number of workers, so there is room for the error of every worker
\* that is still running; and once the workers are started GetLogs returns,
\* whichever log groups fail.
C30_ErrChanNeverBlocks ==
    /\ [](gpc \in {"wait", "returned"}
            => /\ errChanCap = Cardinality(launched)
               /\ \A g \in GroupIds :
                    /\ sentErrors(g) <= 1
                    /\ sentErrors(g) = 1 <=> wpc[g] = "failed"
                    /\ running(g) => Len(errChan) < errChanCap)
    /\ (gpc = "wait") ~> (gpc = "returned")

\* C30 witness: both workers of a GetLogs call failed, errChan is full and
\* GetLogs returned the aggregate error.
C30_Witness ==
    /\ OneShotReturned /\ Len(logGroups) = 2
    /\ Len(errChan) = 2 /\ errChanCap = 2
    /\ getErr.groups = {1, 2}

====
